---- MODULE Spec2Model ----
(***************************************************************************)
(* A model of xai_methods/Local_Perturbation/Morris_Sensitivity_Analysis.py *)
(* (generate_attribution, visualize_attribution,                            *)
(* measure_avg_time_across_images) and of the timing harness and the        *)
(* rendering function that Local_Backpropagation/Grad_CAM.py repeats.       *)
(*                                                                          *)
(* Tensor entries, probabilities and delta are exact rationals              *)
(* <<numerator, denominator>> in lowest terms with a positive denominator:  *)
(* the rounding and the range of float32 are not part of the model.  The    *)
(* model (score function) is an opaque callable: each forward pass returns  *)
(* a target-class probability from ProbSet chosen nondeterministically;     *)
(* when det is TRUE the callable is a function of its argument (memo        *)
(* records the value it gave for each image it has been called on).         *)
(***************************************************************************)
EXTENDS Integers, Sequences, FiniteSets, TLC

\* ------------------------------------------------------------ bounds
MaxDim == 4          \* H, W range over 1..MaxDim
MaxCells == 4        \* configurations with more patches than this are left out
MaxFreeCells == 2    \* the same, when the model is not a function of its input
MaxPermCells == 3    \* the same, when the patches are visited in every order
MaxSamples == 2      \* num_samples ranges over -1..MaxSamples
MaxItems == 2        \* data_source holds at most this many items
MaxCost == 2         \* a load, a classification, an attribution takes 1..MaxCost ticks
MaxCalls == 4        \* visualize_attribution is called at most this many times

\* --------------------------------------------------- program constants
Channels == 3        \* image shape [1, 3, H, W]
EpsInv == 100000000  \* eps = 1e-8 = 1 / EpsInv

\* a local that holds no tensor (yet, or any more)
None == <<>>
NoError == "None"
\* save_path=None, the default
NoPath == "<None>"

\* ------------------------------------------------------------ rationals
AbsInt(n) == IF n < 0 THEN -n ELSE n

RECURSIVE Gcd(_, _)
Gcd(a, b) == IF b = 0 THEN a ELSE Gcd(b, a % b)

Rat(n, d) ==
  LET g == Gcd(AbsInt(n), AbsInt(d))
      sg == IF d < 0 THEN -1 ELSE 1
  IN  <<sg * (n \div g), sg * (d \div g)>>

Zero == <<0, 1>>
One == <<1, 1>>

RAdd(x, y) ==
  LET g == Gcd(x[2], y[2])
  IN  Rat(x[1] * (y[2] \div g) + y[1] * (x[2] \div g), (x[2] \div g) * y[2])

RNeg(x) == <<-x[1], x[2]>>
RSub(x, y) == RAdd(x, RNeg(y))

RMul(x, y) ==
  LET g1 == Gcd(AbsInt(x[1]), y[2])
      g2 == Gcd(AbsInt(y[1]), x[2])
  IN  IF x[1] = 0 \/ y[1] = 0 THEN Zero
      ELSE Rat((x[1] \div g1) * (y[1] \div g2), (x[2] \div g2) * (y[2] \div g1))

\* y # 0
RDiv(x, y) == RMul(x, Rat(y[2], y[1]))

RAbs(x) == <<AbsInt(x[1]), x[2]>>
RLeq(x, y) == RSub(y, x)[1] >= 0
RLess(x, y) == RSub(y, x)[1] > 0

RECURSIVE RSum(_)
RSum(seq) == IF seq = <<>> THEN Zero ELSE RAdd(RSum(SubSeq(seq, 1, Len(seq) - 1)), seq[Len(seq)])

RMinOf(S) == CHOOSE m \in S : \A v \in S : RLeq(m, v)
RMaxOf(S) == CHOOSE m \in S : \A v \in S : RLeq(v, m)

\* Python's a // b (floor division), b # 0, a >= 0
PyFloorDiv(a, b) == IF b > 0 THEN a \div b ELSE -((a + (-b) - 1) \div (-b))

\* ------------------------------------------------------------ state
VARIABLES
  H, W, patch_size, num_samples, delta,  \* the arguments of generate_attribution
  image,            \* the caller's tensor: [<<c, y, x>> -> rational]
  det,              \* the model is a function of its input
  memo,             \* det: the probability the model gave for each image seen
  order,            \* the patches in the order the loops visit them
  pc, err,          \* position in generate_attribution; the exception raised
  orig_prob, heatmap, effects, perturbed_image, k, s,
  absmap,           \* the |mean effect| grid of line 67, kept for reference
  result,           \* the returned tensor: [index -> rational]
  calls,            \* the forward passes made so far: Base or the patch <<i, j>>
  seen,             \* the probabilities the forward passes returned
  retsum,           \* per patch, the sum of the probabilities returned for it
  image0,           \* the caller's tensor as it was at the call
  touched           \* <<index, patch>>: the slice of a sample of patch named index

mvars == <<H, W, patch_size, num_samples, delta, image, det, memo, order, pc, err,
           orig_prob, heatmap, effects, perturbed_image, k, s, absmap, result,
           calls, seen, retsum, image0, touched>>

\* measure_avg_time_across_images
VARIABLES
  data_source,      \* the items handed in
  hpc, hp, idx,     \* position: phase, step of the loop body, item number
  clock,            \* timeit.default_timer()
  start_time, end_time, times, avg_time_taken,
  cache,            \* the device allocator's cache: "clear" or "dirty"
  trace,            \* the steps taken so far: <<step, item>>
  attr_cost,        \* what each attribution call took
  herr

hvars == <<data_source, hpc, hp, idx, clock, start_time, end_time, times, avg_time_taken,
           cache, trace, attr_cost, herr>>

\* visualize_attribution, one function (and one counter) per module
VARIABLES
  save_count,       \* visualize_attribution.save_count of each module
  vpc, vmod, save_path,   \* position in the call, the module called, its argument
  written,          \* per module, the figures fig.savefig has written
  ncalls            \* calls begun

vvars == <<save_count, vpc, vmod, save_path, written, ncalls>>

others == <<hvars, vvars>>

vars == <<mvars, hvars, vvars>>

Base == <<-1, -1>>

Pixels(h, w) == (0 .. Channels - 1) \X (0 .. h - 1) \X (0 .. w - 1)

\* line 37, a mutation: the partial patch at the end is counted
num_patches_h_ceil == IF patch_size > 0 THEN (H + patch_size - 1) \div patch_size
                      ELSE PyFloorDiv(H, patch_size)

\* lines 36-38
num_patches_h == PyFloorDiv(H, patch_size)
num_patches_w == PyFloorDiv(W, patch_size)

Patches == (0 .. num_patches_h - 1) \X (0 .. num_patches_w - 1)

\* lines 44-45, a mutation: the loops are nested the other way round
ColumnMajor(nh, nw) ==
  IF nh <= 0 \/ nw <= 0 THEN <<>>
  ELSE [n \in 1 .. nh * nw |-> <<(n - 1) % nh, (n - 1) \div nh>>]

\* lines 44-45: for i in range(num_patches_h): for j in range(num_patches_w)
RowMajor(nh, nw) ==
  IF nh <= 0 \/ nw <= 0 THEN <<>>
  ELSE [n \in 1 .. nh * nw |-> <<(n - 1) \div nw, (n - 1) % nw>>]

\* the patch being visited (the loop variables i, j)
i == order[k][1]
j == order[k][2]

\* the indices the slice a*patch_size:(a+1)*patch_size names
SliceRange(a) == a * patch_size .. (a + 1) * patch_size - 1

\* line 52: img[:, :, i*ps:(i+1)*ps, j*ps:(j+1)*ps] += delta
Perturb(img, pi, pj) ==
  [px \in DOMAIN img |->
     IF px[2] \in SliceRange(pi) /\ px[3] \in SliceRange(pj)
     THEN RAdd(img[px], delta) ELSE img[px]]

\* line 49, a mutation: the previous clone is reused instead of a new one
CloneSourceStale == IF perturbed_image = None THEN image ELSE perturbed_image

\* line 49: perturbed_image = image.clone()
CloneSource == image

\* lines 49-52, a mutation: no clone, the += acts on the caller's tensor
OriginalAliased(img, pert) == pert

\* lines 49-52: the += acts on the clone, the caller's tensor keeps its values
OriginalAfterPerturb(img, pert) == img

\* the probabilities a forward pass may return (softmax output, lines 33, 57)
ProbSet == {Zero, <<1, 2>>, One}

ScoreOK(arg, p) == p \in ProbSet /\ (det /\ arg \in DOMAIN memo => p = memo[arg])

Remember(arg, p) ==
  IF det THEN [im \in DOMAIN memo \cup {arg} |-> IF im = arg THEN p ELSE memo[im]]
  ELSE memo

\* line 60: effect = (new_prob - orig_prob) / delta
Effect(new_prob, orig) == RDiv(RSub(new_prob, orig), delta)

\* line 64: sum(effects) / len(effects)
MeanEffect(effs) == RDiv(RSum(effs), <<Len(effs), 1>>)

Values(grid) == {grid[p] : p \in DOMAIN grid}

\* line 67: heatmap = torch.abs(heatmap)
AbsGrid(grid) == [p \in DOMAIN grid |-> RAbs(grid[p])]

\* line 71, a mutation: any nonzero range is normalized
ExceedsZero(r) == r[1] > 0

\* line 71: (heat_max - heat_min) > eps, with eps = 1 / EpsInv and r >= 0
ExceedsEps(r) == r[1] > 0 /\ EpsInv > (r[2] \div r[1])

\* line 72, a mutation: the minimum is not subtracted
ScaleNoShift(v, lo, hi) == RDiv(v, RSub(hi, lo))

\* line 72: (heatmap - heat_min) / (heat_max - heat_min)
Scale(v, lo, hi) == RDiv(RSub(v, lo), RSub(hi, lo))

\* lines 67-74 on a non-empty grid
Normalized(grid) ==
  LET a == AbsGrid(grid)
      heat_min == RMinOf(Values(a))
      heat_max == RMaxOf(Values(a))
  IN  IF ExceedsEps(RSub(heat_max, heat_min))
      THEN [p \in DOMAIN a |-> Scale(a[p], heat_min, heat_max)]
      ELSE [p \in DOMAIN a |-> Zero]

\* line 78, a mutation: the source coordinate is not clamped at 0
SrcIndexUnclamped(o, insz, outsz) == Rat((2 * o + 1) * insz - outsz, 2 * outsz)

\* line 78, F.interpolate(mode='bilinear', align_corners=False): the source
\* coordinate of output index o is max(0, (o + 0.5) * insz / outsz - 0.5)
SrcIndex(o, insz, outsz) ==
  LET num == (2 * o + 1) * insz - outsz
  IN  IF num < 0 THEN Zero ELSE Rat(num, 2 * outsz)

Index0(src) == IF src[1] < 0 THEN 0 ELSE src[1] \div src[2]
Index1(i0, insz) == IF i0 < insz - 1 THEN i0 + 1 ELSE i0
Lambda1(src) == RSub(src, <<Index0(src), 1>>)
Lambda0(src) == RSub(One, Lambda1(src))

\* lines 77-78: the (nh, nw) grid upsampled to (h, w)
Interpolate(grid, nh, nw, h, w) ==
  [px \in (0 .. h - 1) \X (0 .. w - 1) |->
     LET sy == SrcIndex(px[1], nh, h)
         sx == SrcIndex(px[2], nw, w)
         y0 == Index0(sy)
         y1 == Index1(y0, nh)
         x0 == Index0(sx)
         x1 == Index1(x0, nw)
         top == RAdd(RMul(Lambda0(sx), grid[<<y0, x0>>]), RMul(Lambda1(sx), grid[<<y0, x1>>]))
         bot == RAdd(RMul(Lambda0(sx), grid[<<y1, x0>>]), RMul(Lambda1(sx), grid[<<y1, x1>>]))
     IN  RAdd(RMul(Lambda0(sy), top), RMul(Lambda1(sy), bot))]

\* line 79: squeeze() drops every dimension of size 1 of the [1, 1, h, w] tensor
SqueezedIndex(px, h, w) ==
  IF h = 1 /\ w = 1 THEN <<>>
  ELSE IF h = 1 THEN <<px[2]>>
  ELSE IF w = 1 THEN <<px[1]>>
  ELSE px

Squeeze(t, h, w) ==
  [ix \in {SqueezedIndex(px, h, w) : px \in DOMAIN t} |->
     t[CHOOSE px \in DOMAIN t : SqueezedIndex(px, h, w) = ix]]

\* the indices the slice of line 52 names for the patch (pi, pj)
Named(pi, pj) == ((0 .. Channels - 1) \X SliceRange(pi) \X SliceRange(pj)) \X {<<pi, pj>>}

\* ------------------------------------------------------------ inputs
\* 0.05 (the default), a negative step, and a step so large that the range of
\* the sensitivities falls on either side of eps
DeltaSet == {<<1, 20>>, <<-1, 10>>, <<50000000, 1>>}

ImageSet(h, w) == {[px \in Pixels(h, w) |-> <<(px[1] + px[2] + px[3]) % 2, 1>>]}

InitArgs ==
  /\ H \in 1 .. MaxDim
  /\ W \in 1 .. MaxDim
  /\ patch_size \in -1 .. MaxDim + 1
  /\ patch_size > 0 => num_patches_h * num_patches_w <= MaxCells
  /\ num_samples \in -1 .. MaxSamples
  /\ delta \in DeltaSet
  /\ image \in ImageSet(H, W)
  /\ det \in BOOLEAN
  /\ (~det /\ patch_size > 0) => num_patches_h * num_patches_w <= MaxFreeCells

InitLocals ==
  /\ memo = <<>>
  /\ err = NoError
  /\ orig_prob = None
  /\ heatmap = None
  /\ effects = <<>>
  /\ perturbed_image = None
  /\ k = 1
  /\ s = 0
  /\ absmap = None
  /\ result = None
  /\ calls = <<>>
  /\ seen = {}
  /\ retsum = <<>>
  /\ image0 = image
  /\ touched = {}

Modules == {"Grad_CAM", "Morris_Sensitivity_Analysis"}

\* no call of measure_avg_time_across_images is under way
HarnessIdle ==
  /\ data_source = <<>>
  /\ hpc = "idle"
  /\ hp = 1
  /\ idx = 1
  /\ clock = 0
  /\ start_time = 0
  /\ end_time = 0
  /\ times = <<>>
  /\ avg_time_taken = None
  /\ cache = "clear"
  /\ trace = <<>>
  /\ attr_cost = <<>>
  /\ herr = NoError

\* line 160 (Grad_CAM.py line 136): visualize_attribution.save_count = 0
VisualizeInit ==
  /\ save_count = [m \in Modules |-> 0]
  /\ vpc = "idle"
  /\ vmod = NoPath
  /\ save_path = NoPath
  /\ written = [m \in Modules |-> 0]

\* no call of generate_attribution is under way
MorrisIdle ==
  /\ H = 1
  /\ W = 1
  /\ patch_size = 1
  /\ num_samples = 1
  /\ delta = <<1, 20>>
  /\ image \in ImageSet(1, 1)
  /\ det = TRUE
  /\ order = <<>>
  /\ InitLocals
  /\ pc = "idle"

Init ==
  /\ InitArgs
  /\ order = IF patch_size > 0 THEN RowMajor(num_patches_h, num_patches_w) ELSE <<>>
  /\ InitLocals
  /\ pc = "start"
  /\ HarnessIdle
  /\ VisualizeInit
  /\ ncalls = MaxCalls

\* ------------------------------------------------------------ generate_attribution
args == <<H, W, patch_size, num_samples, delta, det, order, image0>>

\* an exception leaves the function: its locals are gone
Raise(e) ==
  /\ pc' = "error"
  /\ err' = e
  /\ orig_prob' = None
  /\ heatmap' = None
  /\ effects' = <<>>
  /\ perturbed_image' = None
  /\ k' = 1
  /\ s' = 0
  /\ absmap' = None

\* lines 27-41: the baseline forward pass, the grid's shape, the empty heatmap
Baseline ==
  /\ pc = "start"
  /\ \E p \in ProbSet :
       /\ ScoreOK(image, p)
       /\ memo' = Remember(image, p)
       /\ seen' = seen \cup {p}
       /\ IF patch_size = 0
          THEN Raise("ZeroDivisionError") /\ UNCHANGED retsum
          ELSE IF num_patches_h < 0 \/ num_patches_w < 0
          THEN Raise("RuntimeError") /\ UNCHANGED retsum
          ELSE /\ orig_prob' = p
               /\ heatmap' = [q \in Patches |-> Zero]
               /\ retsum' = [q \in Patches |-> Zero]
               /\ pc' = IF Len(order) = 0 THEN "normalize" ELSE "loop"
               /\ UNCHANGED <<err, effects, perturbed_image, k, s, absmap>>
  /\ calls' = Append(calls, Base)
  /\ UNCHANGED <<others, args, image, result, touched>>

\* lines 32, 56: the forward pass raises, and nothing catches it
ScoreRaises ==
  /\ \/ pc = "start"
     \/ pc = "loop" /\ s < num_samples
  /\ Raise("ScoringFailure")
  /\ calls' = Append(calls, IF pc = "start" THEN Base ELSE <<i, j>>)
  /\ UNCHANGED <<others, args, image, memo, result, seen, retsum, touched>>

\* lines 47-61: one sample of the patch (i, j)
Sample ==
  /\ pc = "loop"
  /\ s < num_samples
  /\ LET pert == Perturb(CloneSource, i, j)
     IN  /\ perturbed_image' = pert
         /\ image' = OriginalAfterPerturb(image, pert)
         /\ touched' = touched \cup Named(i, j)
         /\ \E p \in ProbSet :
              /\ ScoreOK(pert, p)
              /\ memo' = Remember(pert, p)
              /\ seen' = seen \cup {p}
              /\ retsum' = [retsum EXCEPT ![<<i, j>>] = RAdd(@, p)]
              /\ effects' = Append(effects, Effect(p, orig_prob))
  /\ calls' = Append(calls, <<i, j>>)
  /\ s' = s + 1
  /\ UNCHANGED <<others, args, pc, err, orig_prob, heatmap, k, absmap, result>>

\* line 64 and the loop headers of lines 44-47: the patch's mean, the next patch
PatchDone ==
  /\ pc = "loop"
  /\ s >= num_samples
  /\ IF Len(effects) = 0
     THEN Raise("ZeroDivisionError")
     ELSE /\ heatmap' = [heatmap EXCEPT ![<<i, j>>] = MeanEffect(effects)]
          /\ k' = k + 1
          /\ s' = 0
          /\ effects' = <<>>
          /\ pc' = IF k = Len(order) THEN "normalize" ELSE "loop"
          /\ UNCHANGED <<err, orig_prob, perturbed_image, absmap>>
  /\ UNCHANGED <<others, args, image, memo, result, calls, seen, retsum, touched>>

\* lines 66-81: abs, min, max (min of an empty tensor raises), min-max scaling,
\* upsampling to (H, W), return
Normalize ==
  /\ pc = "normalize"
  /\ IF DOMAIN heatmap = {}
     THEN Raise("RuntimeError") /\ UNCHANGED result
     ELSE /\ absmap' = AbsGrid(heatmap)
          /\ heatmap' = Normalized(heatmap)
          /\ result' = Squeeze(Interpolate(Normalized(heatmap), num_patches_h,
                                            num_patches_w, H, W), H, W)
          /\ pc' = "done"
          /\ UNCHANGED <<err, orig_prob, effects, perturbed_image, k, s>>
  /\ UNCHANGED <<others, args, image, memo, calls, seen, retsum, touched>>

Next == Baseline \/ ScoreRaises \/ Sample \/ PatchDone \/ Normalize

Spec == Init /\ [][Next]_vars

\* The same loops visiting the patches in any order, with a model that is a
\* function of its input.
Perms(seq) ==
  {q \in [1 .. Len(seq) -> {seq[n] : n \in 1 .. Len(seq)}] :
     \A a, b \in 1 .. Len(seq) : q[a] = q[b] => a = b}

InitPerm ==
  /\ InitArgs
  /\ det
  /\ patch_size > 0
  /\ num_samples > 0
  /\ delta = <<1, 20>>
  /\ H % patch_size = 0
  /\ W % patch_size = 0
  /\ num_patches_h * num_patches_w <= MaxPermCells
  /\ order \in Perms(RowMajor(num_patches_h, num_patches_w))
  /\ InitLocals
  /\ pc = "start"
  /\ HarnessIdle
  /\ VisualizeInit
  /\ ncalls = MaxCalls

SpecPerm == InitPerm /\ [][Next]_vars

\* ------------------------------------------------------------ measure_avg_time_across_images
Items == {"a", "b"}

RECURSIVE SumInt(_)
SumInt(seq) == IF seq = <<>> THEN 0 ELSE SumInt(SubSeq(seq, 1, Len(seq) - 1)) + seq[Len(seq)]

\* lines 178-188, a mutation: the timer is started before the classification
HarnessBodyEarlyTimer == <<"load", "start", "classify", "attribute", "stop", "append", "clear">>

\* lines 178-188 (Grad_CAM.py lines 156-169): the loop body, statement by statement
HarnessBody == <<"load", "classify", "start", "attribute", "stop", "append", "clear">>

InitHarness ==
  /\ MorrisIdle
  /\ VisualizeInit
  /\ ncalls = MaxCalls
  /\ data_source \in UNION {[1 .. n -> Items] : n \in 0 .. MaxItems}
  /\ hpc = "start"
  /\ hp = 1
  /\ idx = 1
  /\ clock = 0
  /\ start_time = 0
  /\ end_time = 0
  /\ times = <<>>
  /\ avg_time_taken = None
  /\ cache \in {"clear", "dirty"}
  /\ trace = <<>>
  /\ attr_cost = <<>>
  /\ herr = NoError

hframe == <<mvars, vvars, data_source, herr>>

AtStep(name) == hpc = "loop" /\ HarnessBody[hp] = name

\* the statement is done: the next one, or the loop header of line 177
Advance ==
  /\ trace' = Append(trace, <<HarnessBody[hp], data_source[idx]>>)
  /\ IF hp < Len(HarnessBody)
     THEN hp' = hp + 1 /\ UNCHANGED <<idx, hpc>>
     ELSE /\ hp' = 1
          /\ idx' = idx + 1
          /\ hpc' = IF idx < Len(data_source) THEN "loop" ELSE "mean"

\* lines 176-177: times = [], the first item if there is one
HBegin ==
  /\ hpc = "start"
  /\ times' = <<>>
  /\ hpc' = IF Len(data_source) >= 1 THEN "loop" ELSE "mean"
  /\ UNCHANGED <<hframe, hp, idx, clock, start_time, end_time, avg_time_taken, cache, trace,
                 attr_cost>>

\* line 178: image, label = process_data_tuple(data_item, model)
HLoad ==
  /\ AtStep("load")
  /\ \E c \in 1 .. MaxCost : clock' = clock + c
  /\ Advance
  /\ UNCHANGED <<hframe, start_time, end_time, times, avg_time_taken, cache, attr_cost>>

\* lines 179-181: the forward pass and the predicted class
HClassify ==
  /\ AtStep("classify")
  /\ \E c \in 1 .. MaxCost : clock' = clock + c
  /\ cache' = "dirty"
  /\ Advance
  /\ UNCHANGED <<hframe, start_time, end_time, times, avg_time_taken, attr_cost>>

\* line 183: start_time = timeit.default_timer()
HStart ==
  /\ AtStep("start")
  /\ start_time' = clock
  /\ Advance
  /\ UNCHANGED <<hframe, clock, end_time, times, avg_time_taken, cache, attr_cost>>

\* line 184: _ = generate_attribution(image, predicted_class, model)
HAttribute ==
  /\ AtStep("attribute")
  /\ \E c \in 1 .. MaxCost :
       /\ clock' = clock + c
       /\ attr_cost' = Append(attr_cost, c)
  /\ cache' = "dirty"
  /\ Advance
  /\ UNCHANGED <<hframe, start_time, end_time, times, avg_time_taken>>

\* line 185: end_time = timeit.default_timer()
HStop ==
  /\ AtStep("stop")
  /\ end_time' = clock
  /\ Advance
  /\ UNCHANGED <<hframe, clock, start_time, times, avg_time_taken, cache, attr_cost>>

\* line 187: times.append(end_time - start_time)
HAppend ==
  /\ AtStep("append")
  /\ times' = Append(times, end_time - start_time)
  /\ Advance
  /\ UNCHANGED <<hframe, clock, start_time, end_time, avg_time_taken, cache, attr_cost>>

\* line 188: torch.cuda.empty_cache()
HClear ==
  /\ AtStep("clear")
  /\ cache' = "clear"
  /\ Advance
  /\ UNCHANGED <<hframe, clock, start_time, end_time, times, avg_time_taken, attr_cost>>

\* lines 190-191: avg_time_taken = sum(times) / len(times); return
HMean ==
  /\ hpc = "mean"
  /\ IF Len(times) = 0
     THEN /\ hpc' = "error"
          /\ herr' = "ZeroDivisionError"
          /\ UNCHANGED avg_time_taken
     ELSE /\ hpc' = "done"
          /\ avg_time_taken' = Rat(SumInt(times), Len(times))
          /\ UNCHANGED herr
  /\ UNCHANGED <<mvars, vvars, data_source, hp, idx, clock, start_time, end_time, times,
                 cache, trace, attr_cost>>

NextHarness ==
  HBegin \/ HLoad \/ HClassify \/ HStart \/ HAttribute \/ HStop \/ HAppend \/ HClear \/ HMean

SpecHarness == InitHarness /\ [][NextHarness]_vars

\* ------------------------------------------------------------ visualize_attribution
PathSet == {NoPath, "", "out.png"}

\* line 150 (Grad_CAM.py line 126): if save_path:
HasPath(path) == path # NoPath /\ path # ""

\* line 152, a mutation: = 1 instead of += 1
CountReset(c) == 1

\* line 152 (Grad_CAM.py line 128): visualize_attribution.save_count += 1
CountUp(c) == c + 1

InitVisualize ==
  /\ MorrisIdle
  /\ HarnessIdle
  /\ VisualizeInit
  /\ ncalls = 0

vframe == <<mvars, hvars>>

\* lines 111-148 (Grad_CAM.py lines 79-123): predict, map the labels, draw
VRender ==
  /\ vpc = "idle"
  /\ ncalls < MaxCalls
  /\ ncalls' = ncalls + 1
  /\ \E m \in Modules, path \in PathSet :
       /\ vmod' = m
       /\ save_path' = path
       /\ vpc' = IF HasPath(path) THEN "savefig" ELSE "show"
  /\ UNCHANGED <<vframe, save_count, written>>

\* line 151 (Grad_CAM.py line 127): fig.savefig(save_path, ...)
VSavefig ==
  /\ vpc = "savefig"
  /\ written' = [written EXCEPT ![vmod] = @ + 1]
  /\ vpc' = "count"
  /\ UNCHANGED <<vframe, save_count, vmod, save_path, ncalls>>

\* line 151: fig.savefig raises (the directory is missing, the disk is full)
VSavefigRaises ==
  /\ vpc = "savefig"
  /\ vpc' = "idle"
  /\ UNCHANGED <<vframe, save_count, vmod, save_path, written, ncalls>>

\* lines 152-153 (Grad_CAM.py lines 128-129): the counter, the message
VCount ==
  /\ vpc = "count"
  /\ save_count' = [save_count EXCEPT ![vmod] = CountUp(@)]
  /\ vpc' = "show"
  /\ UNCHANGED <<vframe, vmod, save_path, written, ncalls>>

\* lines 155-156 (Grad_CAM.py lines 131-132): plt.show(); plt.close(fig)
VShow ==
  /\ vpc = "show"
  /\ vpc' = "idle"
  /\ UNCHANGED <<vframe, save_count, vmod, save_path, written, ncalls>>

NextVisualize == VRender \/ VSavefig \/ VSavefigRaises \/ VCount \/ VShow

SpecVisualize == InitVisualize /\ [][NextVisualize]_vars

\* ------------------------------------------------------------ properties
ValidArgs == patch_size > 0 /\ H >= patch_size /\ W >= patch_size /\ num_samples > 0
InvalidConfiguration ==
  patch_size > H \/ patch_size > W \/ patch_size <= 0 \/ num_samples <= 0

\* r > 1e-8, for r >= 0
AboveEps(r) == r[1] >= r[2] \/ r[1] * EpsInv > r[2]
Scaled == pc = "done"
HeatMin == RMinOf(Values(absmap))
HeatMax == RMaxOf(Values(absmap))
GridRange == RSub(HeatMax, HeatMin)
InUnit(v) == v[2] > 0 /\ 0 <= v[1] /\ v[1] <= v[2]
GridH == H \div patch_size
GridW == W \div patch_size
Grid == (0 .. GridH - 1) \X (0 .. GridW - 1)

\* C1: a call with patch_size > H, patch_size > W, patch_size <= 0 or
\* num_samples <= 0 makes no forward pass, returns nothing, and the only error
\* it ends in is InvalidConfiguration.
C1_FailFast ==
  InvalidConfiguration =>
    /\ calls = <<>>
    /\ pc \in {"start", "error"}
    /\ pc = "error" => err = "InvalidConfiguration"

\* C2: every cell of the normalized patch grid and every entry of the returned
\* heatmap lies in [0, 1].
C2_HeatmapInUnitInterval ==
  /\ Scaled => \A p \in DOMAIN heatmap : InUnit(heatmap[p])
  /\ pc = "done" => \A px \in DOMAIN result : InUnit(result[px])

C2_Witness ==
  /\ pc = "done"
  /\ \E px \in DOMAIN result : result[px] = One
  /\ \E px \in DOMAIN result : result[px] # Zero /\ result[px] # One

\* C3: when max - min of the absolute sensitivities is <= 1e-8 (a score that
\* never changes, a 1x1 grid) every cell and every returned entry is 0;
\* otherwise every cell is (v - min) / (max - min).
C3_DegenerateZero ==
  Scaled =>
    /\ IF AboveEps(GridRange)
       THEN \A p \in DOMAIN heatmap :
              heatmap[p] = RDiv(RSub(absmap[p], HeatMin), GridRange)
       ELSE /\ \A p \in DOMAIN heatmap : heatmap[p] = Zero
            /\ pc = "done" => \A px \in DOMAIN result : result[px] = Zero
    /\ Cardinality(seen) = 1 => \A p \in DOMAIN heatmap : heatmap[p] = Zero
    /\ Cardinality(DOMAIN heatmap) = 1 => \A p \in DOMAIN heatmap : heatmap[p] = Zero

C3_Witness ==
  /\ pc = "done"
  /\ GridRange[1] > 0
  /\ ~AboveEps(GridRange)
  /\ \A px \in DOMAIN result : result[px] = Zero

\* the caller's tensor with delta added in the patch c and nowhere else
ExpectedPerturbed(c) ==
  [px \in Pixels(H, W) |->
     IF px[2] \div patch_size = c[1] /\ px[3] \div patch_size = c[2]
     THEN RAdd(image0[px], delta) ELSE image0[px]]

\* C4: the caller's image keeps its values throughout, and every perturbed
\* clone handed to the model is the original with delta added in exactly the
\* patch being sampled.
C4_OriginalUntouched ==
  /\ image = image0
  /\ perturbed_image # None => perturbed_image = ExpectedPerturbed(calls[Len(calls)])

C4_Witness ==
  /\ pc = "loop"
  /\ k >= 2
  /\ s >= 2
  /\ perturbed_image # None
  /\ perturbed_image # image

ExpectedCall(m) ==
  IF m = 1 THEN Base
  ELSE LET q == (m - 2) \div num_samples IN <<q \div GridW, q % GridW>>

\* C5: the forward passes are the baseline first, then num_samples consecutive
\* passes per patch in row-major order; a call that returns has made
\* 1 + (H // patch_size) * (W // patch_size) * num_samples of them.
C5_CallSequence ==
  /\ \A m \in 1 .. Len(calls) : calls[m] = ExpectedCall(m)
  /\ pc # "start" => Len(calls) >= 1
  /\ pc = "done" => Len(calls) = 1 + GridH * GridW * num_samples

C5_Witness ==
  /\ pc = "done"
  /\ GridH = 2
  /\ GridW = 2
  /\ num_samples = 2
  /\ Len(calls) = 9

Covered == {px \in Pixels(H, W) : px[2] < GridH * patch_size /\ px[3] < GridW * patch_size}

\* the grid is (H // patch_size, W // patch_size); every index a sample
\* perturbs is inside the image and inside the full patches; once the loops
\* end every covered pixel was perturbed by exactly one patch (every pixel,
\* when the sizes divide)
C6_Tiling ==
  ValidArgs =>
    /\ pc \in {"loop", "normalize", "done"} => DOMAIN heatmap = Grid
    /\ \A t \in touched : t[1] \in Covered
    /\ pc \in {"normalize", "done"} =>
         \A px \in Covered : Cardinality({t \in touched : t[1] = px}) = 1
    /\ (H % patch_size = 0 /\ W % patch_size = 0) => Covered = Pixels(H, W)
    /\ PyFloorDiv(230, 16) = 14 /\ 14 * 16 = 224

\* C6: the patch grid is (H // patch_size, W // patch_size); every index a
\* sample perturbs is inside the image and inside the full patches, so the
\* trailing H mod patch_size rows and W mod patch_size columns are never
\* perturbed; once the loops end every covered pixel was perturbed by exactly
\* one patch (every pixel, when the sizes divide); the returned heatmap has
\* shape (H, W).
C6_PatchGrid ==
  /\ C6_Tiling
  /\ (ValidArgs /\ pc = "done") => DOMAIN result = (0 .. H - 1) \X (0 .. W - 1)

\* C7: with a model that is a function of its input, whatever the order in
\* which the patches are visited, the value of each patch is the effect of
\* that patch's perturbation of the original image alone, and the normalized
\* grid and the returned heatmap are those of these values.
C7_OrderIndependent ==
  (det /\ Scaled) =>
    /\ \A p \in Grid : ExpectedPerturbed(p) \in DOMAIN memo
    /\ LET raw == [p \in Grid |-> Effect(memo[ExpectedPerturbed(p)], memo[image0])]
           norm == Normalized(raw)
       IN  /\ heatmap = norm
           /\ result = Squeeze(Interpolate(norm, GridH, GridW, H, W), H, W)

C7_Witness ==
  /\ pc = "done"
  /\ order # RowMajor(GridH, GridW)
  /\ Len(order) = 3
  /\ order[1] = <<0, 2>> \/ order[1] = <<2, 0>>
  /\ \E px \in DOMAIN result : result[px] # Zero

\* C8: when max - min exceeds 1e-8, the grid holds |mean((p - p0) / delta)| per
\* patch before scaling, and after it 1 at every largest patch, 0 at every
\* smallest, in the same order; a 2x2 grid in which only the top-left patch
\* moves the score becomes 1, 0, 0, 0.
C8_MinMaxNormalized ==
  (Scaled /\ AboveEps(GridRange)) =>
    /\ \A p \in DOMAIN absmap :
         absmap[p] = RAbs(RDiv(RSub(retsum[p], RMul(<<num_samples, 1>>, orig_prob)),
                               RMul(<<num_samples, 1>>, delta)))
    /\ \A p \in DOMAIN absmap :
         /\ absmap[p] = HeatMax => heatmap[p] = One
         /\ absmap[p] = HeatMin => heatmap[p] = Zero
    /\ \A p, q \in DOMAIN absmap :
         RLeq(absmap[p], absmap[q]) <=> RLeq(heatmap[p], heatmap[q])
    /\ (GridH = 2 /\ GridW = 2 /\ absmap[<<0, 0>>] # Zero
          /\ \A p \in DOMAIN absmap : p # <<0, 0>> => absmap[p] = Zero) =>
         heatmap = [p \in DOMAIN absmap |-> IF p = <<0, 0>> THEN One ELSE Zero]

C8_Witness ==
  /\ pc = "done"
  /\ AboveEps(GridRange)
  /\ GridH = 2
  /\ GridW = 2
  /\ heatmap = [p \in DOMAIN absmap |-> IF p = <<0, 0>> THEN One ELSE Zero]
  /\ result[<<1, 1>>] # Zero
  /\ result[<<1, 1>>] # One

\* the order of the loop body's statements, as the claim gives it
ClaimedOrder == <<"load", "classify", "start", "attribute", "stop", "append", "clear">>

\* C9: the items are handled one at a time in input order, each by load,
\* classify, start timer, one attribution call, stop timer, append, clear cache;
\* each recorded time is what the attribution call alone took; the cache is
\* clear when the next item is taken up; on return there is one time per item
\* and the average is their sum over their number.
C9_TimedWindow ==
  /\ \A m \in 1 .. Len(trace) :
       trace[m] = <<ClaimedOrder[((m - 1) % Len(ClaimedOrder)) + 1],
                    data_source[((m - 1) \div Len(ClaimedOrder)) + 1]>>
  /\ \A q \in 1 .. Len(times) : times[q] = attr_cost[q]
  /\ (hpc = "loop" /\ hp = 1 /\ idx > 1) => cache = "clear"
  /\ hpc = "done" =>
       /\ Len(data_source) >= 1
       /\ Len(times) = Len(data_source)
       /\ Len(attr_cost) = Len(data_source)
       /\ Len(trace) = Len(ClaimedOrder) * Len(data_source)
       /\ cache = "clear"
       /\ avg_time_taken[1] * Len(data_source) = SumInt(attr_cost) * avg_time_taken[2]

C9_Witness ==
  /\ hpc = "done"
  /\ Len(times) = 2
  /\ times[1] # times[2]
  /\ data_source[1] # data_source[2]
  /\ clock > times[1] + times[2] + 2

\* between calls the counter of a module equals the figures its function wrote
C10_Counted ==
  \A m \in Modules :
    save_count[m] = written[m] - (IF vpc = "count" /\ vmod = m THEN 1 ELSE 0)

\* C10: each module's save counter starts at 0, equals the number of calls that
\* had a save_path and wrote the figure, moves only by +1 and only right after
\* the file is written, and never decreases or resets.
C10_SaveCounter ==
  /\ \A m \in Modules : save_count[m] = 0
  /\ []C10_Counted
  /\ [][\A m \in Modules :
          \/ save_count'[m] = save_count[m]
          \/ /\ save_count'[m] = save_count[m] + 1
             /\ vpc = "count"
             /\ vmod = m
             /\ HasPath(save_path)]_vars

C10_Witness ==
  /\ vpc = "idle"
  /\ ncalls = 4
  /\ save_count["Grad_CAM"] = 2
  /\ save_count["Morris_Sensitivity_Analysis"] = 1

====
